---- MODULE Spec2Model ----
(***************************************************************************)
(* Model of mk (src/mk.rs): a launcher that resolves the virtualenv of the *)
(* current directory through an append-only cache file and the tools uv    *)
(* and poetry, then runs make.py under that environment's interpreter.     *)
(*                                                                         *)
(* Strings are sequences of one-character strings, so that formatting a    *)
(* record and parsing it back are computed as the code computes them.      *)
(***************************************************************************)
EXTENDS Integers, Sequences, FiniteSets, TLC

\* ------------------------------------------------------------------ bounds
\* Number of invocations of mk, one after the other, in one behaviour.
MaxInvocations == 3

\* The concurrently running mk processes.
Procs == {1, 2}

\* ------------------------------------------------------------- characters
SP == " "
NL == "\n"

IsWhitespace(c) == c \in {SP, NL}

HasWhitespace(s) == \E i \in 1..Len(s) : IsWhitespace(s[i])

\* ----------------------------------------------------------- environment
\* Current directories mk may be started in: a plain one, one that has the
\* first as a strict string prefix, and one that contains a space.
Dirs == { <<"p">>, <<"p", "2">>, <<"p", SP, "v">> }

\* What a discovery tool may print on its standard output.
ToolStdouts ==
    { <<NL>>, <<"v", NL>>, <<"w", NL>> }

\* Exit statuses of the launched make.py.
ChildStatuses == {0, 1}

\* Values of the inherited PATH variable.
SearchPaths == { <<"b">> }

\* Argument lists mk may be called with (after the program name).
ArgLists == { <<>>, << <<"x">>, <<"y">> >> }

\* -------------------------------------------------------- string helpers
\* str::trim
RECURSIVE TrimStart(_)
TrimStart(s) ==
    IF s # <<>> /\ IsWhitespace(Head(s)) THEN TrimStart(Tail(s)) ELSE s

RECURSIVE TrimEnd(_)
TrimEnd(s) ==
    IF s # <<>> /\ IsWhitespace(s[Len(s)])
    THEN TrimEnd(SubSeq(s, 1, Len(s) - 1))
    ELSE s

Trim(s) == TrimEnd(TrimStart(s))

\* str::starts_with
StartsWith(s, prefix) ==
    /\ Len(prefix) <= Len(s)
    /\ SubSeq(s, 1, Len(prefix)) = prefix

\* str::split_whitespace: the maximal whitespace-free substrings, in order.
RECURSIVE SplitWs(_, _, _)
SplitWs(s, cur, acc) ==
    IF s = <<>>
    THEN IF cur = <<>> THEN acc ELSE Append(acc, cur)
    ELSE IF IsWhitespace(Head(s))
         THEN SplitWs(Tail(s), <<>>, IF cur = <<>> THEN acc ELSE Append(acc, cur))
         ELSE SplitWs(Tail(s), Append(cur, Head(s)), acc)

split_whitespace(s) == SplitWs(s, <<>>, <<>>)

\* BufRead::lines: the text split at each newline; a last line that has no
\* newline is a line too, and an empty text has no lines.
RECURSIVE SplitLines(_, _, _)
SplitLines(s, cur, acc) ==
    IF s = <<>>
    THEN IF cur = <<>> THEN acc ELSE Append(acc, cur)
    ELSE IF Head(s) = NL
         THEN SplitLines(Tail(s), <<>>, Append(acc, cur))
         ELSE SplitLines(Tail(s), Append(cur, Head(s)), acc)

lines(s) == SplitLines(s, <<>>, <<>>)

\* format!("{} ", cur_dir)
cur_dir_with_space(cur_dir) == cur_dir \o <<SP>>

\* A record that lacks the path.
new_line_without_path(cur_dir, venv_path) == cur_dir \o <<SP>>

\* A record with the path first and the directory second.
new_line_swapped(cur_dir, venv_path) == venv_path \o <<SP>> \o cur_dir

\* format!("{} {}", cur_dir, venv_path)
new_line(cur_dir, venv_path) == cur_dir \o <<SP>> \o venv_path

\* format!("{}/bin", venv_path) and format!("{}/bin/python", venv_path)
python_bin_dir(venv_path) == venv_path \o <<"/", "bin">>
python_bin(venv_path) == venv_path \o <<"/", "bin", "/", "python">>

\* A PATH with the environment's bin directory put last.
updated_proc_env_path_appended(venv_path, proc_env_path) ==
    proc_env_path \o <<":">> \o python_bin_dir(venv_path)

\* format!("{}:{}", python_bin_dir, proc_env_path)
updated_proc_env_path(venv_path, proc_env_path) ==
    python_bin_dir(venv_path) \o <<":">> \o proc_env_path

\* ------------------------------------------------------- process statuses
\* Exit status of a Rust process that panicked (expect/unwrap failures).
PanicStatus == 101

\* process::exit(1)
ExitFailure == 1

\* Exit status of a process whose main returned.
ExitSuccess == 0

\* ---------------------------------------------------------- tool results
\* The outcome of Command::output() for a discovery tool: whether the tool
\* could be executed, whether it exited with status zero, and its stdout.
ToolOutcomes ==
    { [run |-> TRUE, exec |-> FALSE, success |-> FALSE, stdout |-> <<>>],
      [run |-> TRUE, exec |-> TRUE, success |-> FALSE, stdout |-> <<>>] }
    \cup { [run |-> TRUE, exec |-> TRUE, success |-> TRUE, stdout |-> s] :
           s \in ToolStdouts }

\* A tool that was not invoked.
NotRun == [run |-> FALSE, exec |-> FALSE, success |-> FALSE, stdout |-> <<>>]

\* A uv whose status check is the wrong way round.
get_venv_path_from_uv_inverted(out) ==
    IF ~out.exec THEN <<>>
    ELSE IF out.success THEN <<>>
    ELSE Trim(out.stdout)

\* get_venv_path_from_uv: Some(path) is never empty, so None is written <<>>.
get_venv_path_from_uv(out) ==
    IF ~out.exec THEN <<>>
    ELSE IF ~out.success THEN <<>>
    ELSE Trim(out.stdout)

\* A poetry that does not check for an empty path.
get_venv_path_from_poetry_unchecked(out) ==
    IF ~out.exec THEN [exits |-> TRUE, status |-> PanicStatus, path |-> <<>>]
    ELSE IF ~out.success THEN [exits |-> TRUE, status |-> ExitFailure, path |-> <<>>]
    ELSE [exits |-> FALSE, status |-> ExitSuccess, path |-> Trim(out.stdout)]

\* get_venv_path_from_poetry: the path it returns, or the status it ends the
\* process with.
get_venv_path_from_poetry(out) ==
    IF ~out.exec THEN [exits |-> TRUE, status |-> PanicStatus, path |-> <<>>]
    ELSE IF ~out.success THEN [exits |-> TRUE, status |-> ExitFailure, path |-> <<>>]
    ELSE IF Trim(out.stdout) = <<>>
         THEN [exits |-> TRUE, status |-> ExitFailure, path |-> <<>>]
         ELSE [exits |-> FALSE, status |-> ExitSuccess, path |-> Trim(out.stdout)]

\* The environments that may hold bin/python: the paths the tools can report
\* and one whose name contains a space.
VenvPaths == ({ Trim(s) : s \in ToolStdouts } \ { <<>> }) \cup { <<"v", SP, "w">> }

\* ------------------------------------------------------------ cache scan
\* A field extraction that is off by one: the first field, the directory.
first_field(line) ==
    LET v == split_whitespace(line)
    IN  IF Len(v) < 1
        THEN [panic |-> TRUE, venv_path |-> <<>>]
        ELSE [panic |-> FALSE, venv_path |-> Trim(v[1])]

\* The second whitespace-separated field of a matching line
\* (v.get(1).unwrap()); the unwrap panics when the line has one field only.
second_field(line) ==
    LET v == split_whitespace(line)
    IN  IF Len(v) < 2
        THEN [panic |-> TRUE, venv_path |-> <<>>]
        ELSE [panic |-> FALSE, venv_path |-> Trim(v[2])]

\* A match on the directory alone, without the separating space.
line_matches_prefix(line, cur_dir) == StartsWith(line, cur_dir)

\* Whether a line of the cache file is taken for cur_dir.
line_matches(line, cur_dir) == StartsWith(line, cur_dir_with_space(cur_dir))

\* A loop that keeps the first matching line.
RECURSIVE scan_lines_first_match(_, _, _)
scan_lines_first_match(ls, cur_dir, venv_path) ==
    IF ls = <<>>
    THEN [panic |-> FALSE, venv_path |-> venv_path]
    ELSE IF line_matches(Head(ls), cur_dir) /\ venv_path = <<>>
         THEN LET f == second_field(Head(ls))
              IN  IF f.panic THEN f
                  ELSE scan_lines_first_match(Tail(ls), cur_dir, f.venv_path)
         ELSE scan_lines_first_match(Tail(ls), cur_dir, venv_path)

\* The loop over the lines of the cache file: every matching line overwrites
\* venv_path, so the last one is kept.
RECURSIVE scan_lines(_, _, _)
scan_lines(ls, cur_dir, venv_path) ==
    IF ls = <<>>
    THEN [panic |-> FALSE, venv_path |-> venv_path]
    ELSE IF line_matches(Head(ls), cur_dir)
         THEN LET f == second_field(Head(ls))
              IN  IF f.panic THEN f
                  ELSE scan_lines(Tail(ls), cur_dir, f.venv_path)
         ELSE scan_lines(Tail(ls), cur_dir, venv_path)

\* A validation that keeps the cached path whether or not bin/python exists.
validate_nothing(venv_path, existing) == venv_path

\* The cached path is kept only if its bin/python is among the existing files.
validate(venv_path, existing) ==
    IF venv_path # <<>> /\ ~(python_bin(venv_path) \in existing)
    THEN <<>>
    ELSE venv_path

\* A loop that validates every matching line and keeps the last valid one.
RECURSIVE scan_lines_valid(_, _, _, _)
scan_lines_valid(ls, cur_dir, venv_path, existing) ==
    IF ls = <<>>
    THEN [panic |-> FALSE, venv_path |-> venv_path]
    ELSE IF line_matches(Head(ls), cur_dir)
         THEN LET f == second_field(Head(ls))
              IN  IF f.panic THEN f
                  ELSE IF validate(f.venv_path, existing) = <<>>
                  THEN scan_lines_valid(Tail(ls), cur_dir, venv_path, existing)
                  ELSE scan_lines_valid(Tail(ls), cur_dir, f.venv_path, existing)
         ELSE scan_lines_valid(Tail(ls), cur_dir, venv_path, existing)

\* A cache read that returns the last record whose path has bin/python.
read_cache_last_valid(exists, content, cur_dir, existing) ==
    IF ~exists
    THEN [panic |-> FALSE, venv_path |-> <<>>]
    ELSE scan_lines_valid(lines(content), cur_dir, <<>>, existing)

\* The first half of get_venv_path: the path taken from the cache file, empty
\* on a miss. A cache file that cannot be opened is skipped.
read_cache(exists, content, cur_dir, existing) ==
    IF ~exists
    THEN [panic |-> FALSE, venv_path |-> <<>>]
    ELSE LET r == scan_lines(lines(content), cur_dir, <<>>)
         IN  IF r.panic THEN r
             ELSE [panic |-> FALSE, venv_path |-> validate(r.venv_path, existing)]

\* ------------------------------------------------------------------ state
VARIABLES
    cache_exists,   \* whether the cache file exists
    cache,          \* the characters of the cache file
    files,          \* the interpreter files (<venv>/bin/python) that exist
    dirs,           \* the directories mk is started in
    arg_lists,      \* the argument lists mk is called with
    budget,         \* invocations each process may still start
    make_py,        \* whether make.py exists in the directory of the process
    pc,             \* where each process is in main
    cur_dir,        \* main's cur_dir
    venv_path,      \* get_venv_path's venv_path
    scanned,        \* what the process saw when it read the cache
    uv,             \* the outcome of the uv command, if it was run
    poetry,         \* the outcome of the poetry command, if it was run
    written,        \* the characters the process appended to the cache file
    last_append,    \* the last record appended in full, and the file with it
    cache_error,    \* the cache diagnostic the process printed, if any
    args,           \* main's args: the arguments mk was called with
    proc_env_path,  \* main's proc_env_path: the inherited PATH
    command,        \* the command the process spawned
    child,          \* the status the spawned command ended with
    status          \* the exit status of the process

vars == << cache_exists, cache, files, dirs, arg_lists, budget, make_py, pc,
           cur_dir, venv_path, scanned, uv, poetry, written, last_append,
           cache_error, args, proc_env_path, command, child, status >>

NoScan == [done |-> FALSE, exists |-> FALSE, content |-> <<>>]

NoCommand ==
    [run |-> FALSE, program |-> <<>>, args |-> <<>>, env_path |-> <<>>]

NoAppend == [done |-> FALSE, dir |-> <<>>, path |-> <<>>, file |-> <<>>]

NoChild == [exited |-> FALSE, status |-> ExitSuccess]

\* No cache file yet, any set of environments on disk, and every process
\* still to be started; ds are the directories mk is started in, als the
\* argument lists it is called with, and b gives the invocations each process
\* may start.
InitWith(ds, als, b) ==
    /\ cache_exists = FALSE
    /\ cache = <<>>
    /\ files \in SUBSET { python_bin(v) : v \in VenvPaths }
    /\ dirs = ds
    /\ arg_lists = als
    /\ budget = b
    /\ make_py = [p \in Procs |-> TRUE]
    /\ pc = [p \in Procs |-> "idle"]
    /\ cur_dir = [p \in Procs |-> <<>>]
    /\ venv_path = [p \in Procs |-> <<>>]
    /\ scanned = [p \in Procs |-> NoScan]
    /\ uv = [p \in Procs |-> NotRun]
    /\ poetry = [p \in Procs |-> NotRun]
    /\ written = [p \in Procs |-> <<>>]
    /\ last_append = NoAppend
    /\ cache_error = [p \in Procs |-> "none"]
    /\ args = [p \in Procs |-> <<>>]
    /\ proc_env_path = [p \in Procs |-> <<>>]
    /\ command = [p \in Procs |-> NoCommand]
    /\ child = [p \in Procs |-> NoChild]
    /\ status = [p \in Procs |-> ExitSuccess]

\* One process runs mk, MaxInvocations times.
Init == InitWith(Dirs, ArgLists, [p \in Procs |-> IF p = 1 THEN MaxInvocations ELSE 0])

\* The process ends with the given status.
Exit(p, code) ==
    /\ pc' = [pc EXCEPT ![p] = "done"]
    /\ status' = [status EXCEPT ![p] = code]

\* A main that goes on without make.py.
ensure_make_py_exists_ignored(exists) ==
    [exits |-> FALSE, status |-> ExitSuccess]

\* ensure_make_py_exists: without make.py the process ends with status 1.
ensure_make_py_exists(exists) ==
    IF ~exists
    THEN [exits |-> TRUE, status |-> ExitFailure]
    ELSE [exits |-> FALSE, status |-> ExitSuccess]

\* main up to the call of get_venv_path: the directories are read and the
\* cache directory is created (each an expect), then make.py must exist.
Start(p) ==
    /\ pc[p] = "idle"
    /\ budget[p] > 0
    /\ budget' = [budget EXCEPT ![p] = @ - 1]
    /\ UNCHANGED << dirs, arg_lists >>
    /\ \E d \in dirs, setup_ok \in BOOLEAN, make_py_exists \in BOOLEAN :
         /\ cur_dir' = [cur_dir EXCEPT ![p] = d]
         /\ make_py' = [make_py EXCEPT ![p] = make_py_exists]
         /\ IF ~setup_ok THEN Exit(p, PanicStatus)
            ELSE IF ensure_make_py_exists(make_py_exists).exits
            THEN Exit(p, ensure_make_py_exists(make_py_exists).status)
            ELSE /\ pc' = [pc EXCEPT ![p] = "read_cache"]
                 /\ UNCHANGED status
    /\ UNCHANGED << last_append, args, proc_env_path >>
    /\ UNCHANGED << cache_exists, cache, files, venv_path, scanned, uv,
                    poetry, written, cache_error, command, child >>

\* A get_venv_path that writes the record whether or not the path is new.
after_cache_always_write(path) == IF path = <<>> THEN "uv" ELSE "open_cache"

\* Where get_venv_path goes after the cache: to the tools if no path was
\* found, else straight to its return.
after_cache(path) == IF path = <<>> THEN "uv" ELSE "launch"

\* get_venv_path, the cache file is opened, scanned and the path validated.
ReadCache(p) ==
    /\ pc[p] = "read_cache"
    /\ scanned' = [scanned EXCEPT ![p] =
           [done |-> TRUE, exists |-> cache_exists, content |-> cache]]
    /\ LET r == read_cache(cache_exists, cache, cur_dir[p], files)
       IN  IF r.panic
           THEN /\ Exit(p, PanicStatus)
                /\ UNCHANGED venv_path
           ELSE /\ venv_path' = [venv_path EXCEPT ![p] = r.venv_path]
                /\ pc' = [pc EXCEPT ![p] = after_cache(r.venv_path)]
                /\ UNCHANGED status
    /\ UNCHANGED << make_py, last_append, args, proc_env_path >>
    /\ UNCHANGED << cache_exists, cache, files, dirs, arg_lists, budget, cur_dir, uv, poetry,
                    written, cache_error, command, child >>

\* A get_venv_path that takes whatever uv gave and never asks poetry.
after_uv_no_fallback(path) == "open_cache"

\* Where get_venv_path goes after uv: to the cache write with the path of uv,
\* or on to poetry if uv gave none.
after_uv(path) == IF path # <<>> THEN "open_cache" ELSE "poetry"

\* get_venv_path on a miss: uv is tried first.
RunUv(p) ==
    /\ pc[p] = "uv"
    /\ \E out \in ToolOutcomes :
         /\ uv' = [uv EXCEPT ![p] = out]
         /\ LET path == get_venv_path_from_uv(out)
            IN  /\ venv_path' = [venv_path EXCEPT ![p] = path]
                /\ pc' = [pc EXCEPT ![p] = after_uv(path)]
    /\ UNCHANGED << make_py, last_append, args, proc_env_path >>
    /\ UNCHANGED << cache_exists, cache, files, dirs, arg_lists, budget, cur_dir, scanned,
                    poetry, written, cache_error, command, child, status >>

\* get_venv_path on a miss, uv gave nothing: poetry is the last resort.
RunPoetry(p) ==
    /\ pc[p] = "poetry"
    /\ \E out \in ToolOutcomes :
         /\ poetry' = [poetry EXCEPT ![p] = out]
         /\ LET r == get_venv_path_from_poetry(out)
            IN  IF r.exits
                THEN /\ Exit(p, r.status)
                     /\ UNCHANGED venv_path
                ELSE /\ venv_path' = [venv_path EXCEPT ![p] = r.path]
                     /\ pc' = [pc EXCEPT ![p] = "open_cache"]
                     /\ UNCHANGED status
    /\ UNCHANGED << make_py, last_append, args, proc_env_path >>
    /\ UNCHANGED << cache_exists, cache, files, dirs, arg_lists, budget, cur_dir, scanned, uv,
                    written, cache_error, command, child >>

\* The cache file is opened for appending and created if missing; a failure
\* to open it ends the process.
OpenCache(p) ==
    /\ pc[p] = "open_cache"
    /\ \E opened \in BOOLEAN :
         IF opened
         THEN /\ cache_exists' = TRUE
              /\ pc' = [pc EXCEPT ![p] = "write_line"]
              /\ UNCHANGED << status, cache_error >>
         ELSE /\ cache_error' = [cache_error EXCEPT ![p] = "open"]
              /\ Exit(p, ExitFailure)
              /\ UNCHANGED cache_exists
    /\ UNCHANGED << make_py, last_append, args, proc_env_path >>
    /\ UNCHANGED << cache, files, dirs, arg_lists, budget, cur_dir, venv_path, scanned, uv,
                    poetry, written, command, child >>

\* A write to a file opened without append(true): it starts at offset zero
\* and overwrites what is there.
write_at_start(content, text) ==
    text \o SubSeq(content, Len(text) + 1, Len(content))

\* What one write of `text` in append mode does to the file.
append(content, text) == content \o text

\* A first write that waits while another process is between its two writes,
\* as it would under a lock on the cache file.
WriteLine_locked(p) ==
    /\ pc[p] = "write_line"
    /\ \A q \in Procs \ {p} : pc[q] # "write_newline"
    /\ \E ok \in BOOLEAN :
         IF ok
         THEN /\ cache' = append(cache, new_line(cur_dir[p], venv_path[p]))
              /\ written' = [written EXCEPT ![p] =
                     @ \o new_line(cur_dir[p], venv_path[p])]
              /\ pc' = [pc EXCEPT ![p] = "write_newline"]
              /\ UNCHANGED cache_error
         ELSE /\ cache_error' = [cache_error EXCEPT ![p] = "write"]
              /\ pc' = [pc EXCEPT ![p] = "launch"]
              /\ UNCHANGED << cache, written >>
    /\ UNCHANGED << make_py, last_append, args, proc_env_path >>
    /\ UNCHANGED << cache_exists, files, dirs, arg_lists, budget, cur_dir, venv_path, scanned,
                    uv, poetry, command, child, status >>

\* writeln!(file, "{}", new_line) writes the line and the newline in two
\* writes to the unbuffered file. This is the first: a failure is reported
\* on stderr and get_venv_path returns all the same.
WriteLine(p) ==
    /\ pc[p] = "write_line"
    /\ \E ok \in BOOLEAN :
         IF ok
         THEN /\ cache' = append(cache, new_line(cur_dir[p], venv_path[p]))
              /\ written' = [written EXCEPT ![p] =
                     @ \o new_line(cur_dir[p], venv_path[p])]
              /\ pc' = [pc EXCEPT ![p] = "write_newline"]
              /\ UNCHANGED cache_error
         ELSE /\ cache_error' = [cache_error EXCEPT ![p] = "write"]
              /\ pc' = [pc EXCEPT ![p] = "launch"]
              /\ UNCHANGED << cache, written >>
    /\ UNCHANGED << make_py, last_append, args, proc_env_path >>
    /\ UNCHANGED << cache_exists, files, dirs, arg_lists, budget, cur_dir, venv_path, scanned,
                    uv, poetry, command, child, status >>

\* The second write of writeln!: the newline. (A write error is modelled at
\* the first write, where it leaves the file as it was.)
WriteNewline(p) ==
    /\ pc[p] = "write_newline"
    /\ cache' = append(cache, <<NL>>)
    /\ written' = [written EXCEPT ![p] = @ \o <<NL>>]
    /\ last_append' = [done |-> TRUE, dir |-> cur_dir[p],
                       path |-> venv_path[p], file |-> cache']
    /\ pc' = [pc EXCEPT ![p] = "launch"]
    /\ UNCHANGED << args, proc_env_path >>
    /\ UNCHANGED << make_py, cache_exists, files, dirs, arg_lists, budget, cur_dir, venv_path, scanned,
                    uv, poetry, cache_error, command, child, status >>

\* The command main builds from the resolved path, the arguments and PATH.
make_command(path, arguments, search_path) ==
    [run |-> TRUE,
     program |-> python_bin(path),
     args |-> << <<"m", "a", "k", "e", ".", "p", "y">> >> \o arguments,
     env_path |-> updated_proc_env_path(path, search_path)]

\* main after get_venv_path returned: the arguments are taken, PATH is read
\* (an expect) and the interpreter is spawned (an expect on the spawn).
Launch(p) ==
    /\ pc[p] = "launch"
    /\ \E path_set \in BOOLEAN, s \in SearchPaths, a \in arg_lists :
         /\ args' = [args EXCEPT ![p] = a]
         /\ IF ~path_set
            THEN /\ Exit(p, PanicStatus)
                 /\ UNCHANGED << proc_env_path, command >>
            ELSE /\ proc_env_path' = [proc_env_path EXCEPT ![p] = s]
                 /\ IF ~(python_bin(venv_path[p]) \in files)
                    THEN /\ Exit(p, PanicStatus)
                         /\ UNCHANGED command
                    ELSE /\ command' = [command EXCEPT ![p] =
                                make_command(venv_path[p], a, s)]
                         /\ pc' = [pc EXCEPT ![p] = "wait"]
                         /\ UNCHANGED status
    /\ UNCHANGED << make_py, last_append >>
    /\ UNCHANGED << cache_exists, cache, files, dirs, arg_lists, budget, cur_dir, venv_path,
                    scanned, uv, poetry, written, cache_error, child >>

\* The status main ends with once the child has ended with child_status:
\* the ExitStatus that status() returns is dropped and main returns.
main_status(child_status) == ExitSuccess

\* The child terminates and main returns.
Wait(p) ==
    /\ pc[p] = "wait"
    /\ \E st \in ChildStatuses :
         /\ child' = [child EXCEPT ![p] = [exited |-> TRUE, status |-> st]]
         /\ Exit(p, main_status(st))
    /\ UNCHANGED << make_py, last_append, args, proc_env_path >>
    /\ UNCHANGED << cache_exists, cache, files, dirs, arg_lists, budget, cur_dir, venv_path,
                    scanned, uv, poetry, written, cache_error, command >>

\* The process is gone; the slot is free for the next invocation.
Reap(p) ==
    /\ pc[p] = "done"
    /\ pc' = [pc EXCEPT ![p] = "idle"]
    /\ make_py' = [make_py EXCEPT ![p] = TRUE]
    /\ cur_dir' = [cur_dir EXCEPT ![p] = <<>>]
    /\ venv_path' = [venv_path EXCEPT ![p] = <<>>]
    /\ scanned' = [scanned EXCEPT ![p] = NoScan]
    /\ uv' = [uv EXCEPT ![p] = NotRun]
    /\ poetry' = [poetry EXCEPT ![p] = NotRun]
    /\ written' = [written EXCEPT ![p] = <<>>]
    /\ cache_error' = [cache_error EXCEPT ![p] = "none"]
    /\ args' = [args EXCEPT ![p] = <<>>]
    /\ proc_env_path' = [proc_env_path EXCEPT ![p] = <<>>]
    /\ command' = [command EXCEPT ![p] = NoCommand]
    /\ child' = [child EXCEPT ![p] = NoChild]
    /\ status' = [status EXCEPT ![p] = ExitSuccess]
    /\ UNCHANGED << last_append, cache_exists, cache, files, dirs, arg_lists, budget >>

\* Outside mk, an environment's interpreter is created or removed. This
\* happens between the runs of mk, not while one is under way.
EnvChange ==
    /\ \A p \in Procs : pc[p] = "idle"
    /\ \E v \in VenvPaths :
         files' = IF python_bin(v) \in files
                  THEN files \ { python_bin(v) }
                  ELSE files \cup { python_bin(v) }
    /\ UNCHANGED << make_py, last_append, args, proc_env_path >>
    /\ UNCHANGED << cache_exists, cache, dirs, arg_lists, budget, pc, cur_dir, venv_path,
                    scanned, uv, poetry, written, cache_error, command, child, status >>

Next ==
    \/ \E p \in Procs : Start(p)
    \/ \E p \in Procs : ReadCache(p)
    \/ \E p \in Procs : RunUv(p)
    \/ \E p \in Procs : RunPoetry(p)
    \/ \E p \in Procs : OpenCache(p)
    \/ \E p \in Procs : WriteLine(p)
    \/ \E p \in Procs : WriteNewline(p)
    \/ \E p \in Procs : Launch(p)
    \/ \E p \in Procs : Wait(p)
    \/ \E p \in Procs : Reap(p)
    \/ EnvChange

\* Invocations of mk one after the other.
Spec == Init /\ [][Next]_vars

\* Two processes, one invocation each, overlapping in any way, in the same
\* directory or in two directories of which one is a prefix of the other,
\* and called with the arguments x y.
InitConcurrent ==
    InitWith({ <<"p">>, <<"p", "2">> }, { << <<"x">>, <<"y">> >> },
             [p \in Procs |-> 1])

SpecConcurrent == InitConcurrent /\ [][Next]_vars

\* The directories of one behaviour: two plain names, or a plain name and a
\* name that continues it with a space and a newline.
DirSets ==
    { { <<"p">>, <<"p", "2">> }, { <<"p">>, <<"p", SP, NL, "q">> } }

\* Invocations one after the other, in the directories of one of DirSets.
InitNames ==
    \E ds \in DirSets :
        InitWith(ds, ArgLists, [p \in Procs |-> IF p = 1 THEN MaxInvocations ELSE 0])

SpecNames == InitNames /\ [][Next]_vars

\* ================================================================ claims
\* The vocabulary of the claims, from the file format of the cache:
\* a record for directory d is a line "<d> <path>".

\* The process is inside main (started and not yet ended).
Running(p) == pc[p] \notin {"idle", "done"}

\* get_venv_path has returned to main.
Returned(p) == pc[p] \in {"launch", "wait"}

\* The process has read the cache file and is still running.
HasScanned(p) == scanned[p].done /\ Running(p)

\* The lines of the cache file as the process read it.
ScannedLines(p) == IF scanned[p].exists THEN lines(scanned[p].content) ELSE <<>>

\* The positions of the records for directory d among the lines ls.
RecordsFor(ls, d) ==
    { i \in 1..Len(ls) : StartsWith(ls[i], d \o <<SP>>) /\ Len(ls[i]) > Len(d) + 1 }

\* The path of a record for directory d: what follows "<d> " on its line.
RecordPath(line, d) == SubSeq(line, Len(d) + 2, Len(line))

\* The last record for d among ls (RecordsFor(ls, d) is not empty).
LastRecord(ls, d) ==
    ls[CHOOSE i \in RecordsFor(ls, d) : \A j \in RecordsFor(ls, d) : j <= i]

\* <path>/bin/python exists.
HasPython(path) == python_bin(path) \in files

\* The process read a cache file with exactly one record for its directory,
\* and that record's path has bin/python.
OneValidRecord(p) ==
    /\ HasScanned(p)
    /\ Cardinality(RecordsFor(ScannedLines(p), cur_dir[p])) = 1
    /\ HasPython(RecordPath(LastRecord(ScannedLines(p), cur_dir[p]), cur_dir[p]))

\* The process got the path of the only record and ran no tool.
HitOnOnlyRecord(p) ==
    /\ venv_path[p] = RecordPath(LastRecord(ScannedLines(p), cur_dir[p]), cur_dir[p])
    /\ ~uv[p].run
    /\ ~poetry[p].run

\* C1 as stated: whenever the cache file holds exactly one record for the
\* current directory and that record's path has bin/python, get_venv_path
\* returns that path and runs neither uv nor poetry.
C1_AnyStrings == \A p \in Procs : OneValidRecord(p) => HitOnOnlyRecord(p)

\* C1 (amended): when the current directory and the path of its only record
\* contain no whitespace and that path has bin/python, get_venv_path returns
\* that path and runs neither uv nor poetry.
C1_CacheHit ==
    \A p \in Procs :
        ( /\ OneValidRecord(p)
          /\ ~HasWhitespace(cur_dir[p])
          /\ ~HasWhitespace(RecordPath(LastRecord(ScannedLines(p), cur_dir[p]),
                                       cur_dir[p])) )
        => HitOnOnlyRecord(p)

\* A cache hit on the only record of a whitespace-free directory, returned.
C1_Witness ==
    \E p \in Procs :
        /\ OneValidRecord(p)
        /\ ~HasWhitespace(cur_dir[p])
        /\ Returned(p)
        /\ venv_path[p] = <<"v">>
        /\ ~uv[p].run

\* The path of the last record for the directory of p in the file p read.
LaterPath(p) == RecordPath(LastRecord(ScannedLines(p), cur_dir[p]), cur_dir[p])

\* The process read a cache file with exactly two records for its directory,
\* and their paths differ.
TwoRecords(p) ==
    /\ HasScanned(p)
    /\ LET ls == ScannedLines(p)
           rs == RecordsFor(ls, cur_dir[p])
       IN  /\ Cardinality(rs) = 2
           /\ \E i, j \in rs :
                RecordPath(ls[i], cur_dir[p]) # RecordPath(ls[j], cur_dir[p])

\* C2 as stated: for any cache file with two records for the current
\* directory with different paths, get_venv_path returns the path of the
\* later record.
C2_AnyFile ==
    \A p \in Procs : (TwoRecords(p) /\ Returned(p)) => venv_path[p] = LaterPath(p)

\* C2 (amended): for a cache file with two records for the current directory
\* with different paths, where the directory and the later record's path
\* contain no whitespace and the later path has bin/python, get_venv_path
\* returns the path of the later record.
C2_LastMatchWins ==
    \A p \in Procs :
        ( /\ TwoRecords(p)
          /\ ~HasWhitespace(cur_dir[p])
          /\ ~HasWhitespace(LaterPath(p))
          /\ HasPython(LaterPath(p)) )
        => (Returned(p) /\ venv_path[p] = LaterPath(p))

\* Two records "p v" then "p w" were read, and w, the later one, is returned.
C2_Witness ==
    \E p \in Procs :
        /\ TwoRecords(p)
        /\ cur_dir[p] = <<"p">>
        /\ RecordPath(ScannedLines(p)[1], cur_dir[p]) = <<"v">>
        /\ LaterPath(p) = <<"w">>
        /\ Returned(p)
        /\ venv_path[p] = <<"w">>

\* A tool gave a path: it could be run, ended with status zero and printed
\* more than whitespace.
ToolOk(out) ==
    out.run /\ out.exec /\ out.success /\ Trim(out.stdout) # <<>>

\* The path the fallback chain found: that of uv, else that of poetry.
Discovered(p) ==
    IF ToolOk(uv[p]) THEN Trim(uv[p].stdout) ELSE Trim(poetry[p].stdout)

\* The text of a record in the cache file.
RecordLine(d, path) == d \o <<SP>> \o path

\* The last record for the directory of p names a path without bin/python.
StaleRecord(p) ==
    /\ HasScanned(p)
    /\ RecordsFor(ScannedLines(p), cur_dir[p]) # {}
    /\ ~HasPython(LaterPath(p))

\* The invocation went to the fallback chain, and once get_venv_path has
\* returned without a cache error, the file is what p read followed by the
\* one new record for the discovered path.
MissThenAppend(p) ==
    /\ pc[p] # "uv" => uv[p].run
    /\ (Returned(p) /\ cache_error[p] = "none") =>
          /\ venv_path[p] = Discovered(p)
          /\ written[p] = RecordLine(cur_dir[p], Discovered(p)) \o <<NL>>
          /\ cache = scanned[p].content \o written[p]

\* C3 as stated: when the record selected for the current directory names a
\* path without bin/python, the invocation takes the miss path, runs the
\* fallback chain and appends the discovered path as a new record at the end
\* of the file, the stale record staying as it was.
C3_AnyStrings == \A p \in Procs : StaleRecord(p) => MissThenAppend(p)

\* C3 (amended): the same for a current directory and a stale path that
\* contain no whitespace.
C3_Staleness ==
    \A p \in Procs :
        ( /\ StaleRecord(p)
          /\ ~HasWhitespace(cur_dir[p])
          /\ ~HasWhitespace(LaterPath(p)) )
        => MissThenAppend(p)

\* The record "p v" was stale, poetry found w, and "p w" now follows it.
C3_Witness ==
    \E p \in Procs :
        /\ StaleRecord(p)
        /\ cur_dir[p] = <<"p">>
        /\ LaterPath(p) = <<"v">>
        /\ Returned(p)
        /\ poetry[p].run
        /\ venv_path[p] = <<"w">>
        /\ lines(cache) = << <<"p", SP, "v">>, <<"p", SP, "w">> >>

\* C4: whenever the launched script was spawned and has terminated, the exit
\* status of mk equals the status the script terminated with.
C4_ExitStatusPropagated ==
    \A p \in Procs :
        (pc[p] = "done" /\ child[p].exited) => status[p] = child[p].status

\* C5: on a miss, if the cache file cannot be opened or created, or the new
\* record cannot be written, the invocation ends with a non-zero status and
\* the script is never spawned.
C5_CacheWriteFatal ==
    \A p \in Procs :
        cache_error[p] # "none" =>
            /\ pc[p] = "done"
            /\ status[p] # ExitSuccess
            /\ ~command[p].run

\* C6: on a miss, if uv was unavailable and poetry failed (could not be run,
\* ended with a non-zero status, or printed nothing), the process has exited
\* with a non-zero status, the cache file is as the process found it, and
\* the script was not spawned.
C6_TerminalFailure ==
    \A p \in Procs :
        (uv[p].run /\ ~ToolOk(uv[p]) /\ poetry[p].run /\ ~ToolOk(poetry[p])) =>
            /\ pc[p] = "done"
            /\ status[p] # ExitSuccess
            /\ written[p] = <<>>
            /\ cache = scanned[p].content
            /\ cache_exists = scanned[p].exists
            /\ ~command[p].run

\* uv could not be run, poetry ended with a non-zero status, and the
\* process exited with status 1 leaving a cache file that has a record.
C6_Witness ==
    \E p \in Procs :
        /\ uv[p].run /\ ~uv[p].exec
        /\ poetry[p].run /\ poetry[p].exec /\ ~poetry[p].success
        /\ pc[p] = "done"
        /\ status[p] = ExitFailure
        /\ cache # <<>>

\* C7: if uv is invoked and succeeds (status zero, output not empty once
\* trimmed), poetry is not invoked in that invocation and the path
\* get_venv_path returns is the output of uv.
C7_FallbackOrdering ==
    \A p \in Procs :
        ToolOk(uv[p]) =>
            /\ ~poetry[p].run
            /\ Returned(p) => venv_path[p] = Trim(uv[p].stdout)

\* uv printed "v" and get_venv_path returned v.
C7_Witness ==
    \E p \in Procs :
        /\ ToolOk(uv[p])
        /\ uv[p].stdout = <<"v", NL>>
        /\ Returned(p)
        /\ venv_path[p] = <<"v">>

\* C8: on a miss, whichever way uv is unavailable (it cannot be run, ends
\* with a non-zero status, or prints nothing), the invocation goes on to
\* poetry; if poetry succeeds, its output is the path get_venv_path works
\* with and returns, and the path of the record that is appended.
C8_FallbackEscalation ==
    \A p \in Procs :
        (uv[p].run /\ ~ToolOk(uv[p])) =>
            /\ pc[p] # "poetry" => poetry[p].run
            /\ ToolOk(poetry[p]) =>
                 /\ venv_path[p] = Trim(poetry[p].stdout)
                 /\ written[p] \in
                        { <<>>,
                          RecordLine(cur_dir[p], Trim(poetry[p].stdout)),
                          RecordLine(cur_dir[p], Trim(poetry[p].stdout)) \o <<NL>> }
                 /\ (Returned(p) /\ cache_error[p] = "none") =>
                        written[p] =
                            RecordLine(cur_dir[p], Trim(poetry[p].stdout)) \o <<NL>>

\* uv is not installed, poetry printed "w", and "p2 w" was appended.
C8_Witness ==
    \E p \in Procs :
        /\ uv[p].run /\ ~uv[p].exec
        /\ ToolOk(poetry[p])
        /\ Returned(p)
        /\ cur_dir[p] = <<"p", "2">>
        /\ venv_path[p] = <<"w">>
        /\ written[p] = <<"p", "2", SP, "w", NL>>

\* s is a prefix of t.
IsPrefix(s, t) == Len(s) <= Len(t) /\ SubSeq(t, 1, Len(s)) = s

\* C9: in every step, of whichever process and however the invocations
\* interleave, the cache file before the step is a prefix of the cache file
\* after it, and an existing cache file stays.
C9_AppendOnly ==
    [][IsPrefix(cache, cache') /\ (cache_exists => cache_exists')]_vars

\* Both processes have appended their whole record to the cache file.
C9_Witness ==
    /\ \A p \in Procs : written[p] # <<>> /\ pc[p] = "launch"
    /\ Len(lines(cache)) = 2

\* The invocation took the hit path: the code found a cached path for its
\* directory and found its bin/python.
Hit(p) ==
    /\ HasScanned(p)
    /\ LET r == read_cache(scanned[p].exists, scanned[p].content, cur_dir[p], files)
       IN  ~r.panic /\ r.venv_path # <<>>

C11_UsableResult ==
    \A p \in Procs :
        /\ Returned(p) => HasPython(venv_path[p])
        /\ (pc[p] = "done" /\ ~command[p].run) => written[p] = <<>>

\* C12: an invocation started in a directory without make.py has exited with
\* a non-zero status, and it has not read the cache file, has run neither uv
\* nor poetry, has appended nothing and has spawned no interpreter.
C12_ScriptPreconditionFirst ==
    \A p \in Procs :
        (pc[p] # "idle" /\ ~make_py[p]) =>
            /\ pc[p] = "done"
            /\ status[p] # ExitSuccess
            /\ ~scanned[p].done
            /\ ~uv[p].run
            /\ ~poetry[p].run
            /\ written[p] = <<>>
            /\ ~command[p].run

\* An invocation without make.py ended with status 1 although the cache
\* file holds a record for its directory whose path has bin/python.
C12_Witness ==
    \E p \in Procs :
        /\ pc[p] = "done"
        /\ ~make_py[p]
        /\ status[p] = ExitFailure
        /\ cur_dir[p] = <<"p">>
        /\ lines(cache) = << <<"p", SP, "v">> >>
        /\ HasPython(<<"v">>)

\* The name of the script.
MakePy == <<"m", "a", "k", "e", ".", "p", "y">>

\* C13: whatever path P get_venv_path returned, whatever the inherited PATH
\* S and the arguments A, the spawned program is P/bin/python, its arguments
\* are make.py and then A as given, and its PATH is P/bin, a colon, then S;
\* and an invocation that found no cache file and got P from uv has, once
\* the cache file was written without error, appended the line "<dir> P".
C13_LaunchShape ==
    \A p \in Procs :
        /\ command[p].run =>
             /\ command[p].program = venv_path[p] \o <<"/", "bin", "/", "python">>
             /\ Len(command[p].args) = 1 + Len(args[p])
             /\ command[p].args[1] = MakePy
             /\ \A i \in 1..Len(args[p]) : command[p].args[i + 1] = args[p][i]
             /\ command[p].env_path =
                    venv_path[p] \o <<"/", "bin", ":">> \o proc_env_path[p]
        /\ ( /\ HasScanned(p)
             /\ ~scanned[p].exists
             /\ ToolOk(uv[p])
             /\ Returned(p)
             /\ cache_error[p] = "none" ) =>
               /\ written[p] = cur_dir[p] \o <<SP>> \o Trim(uv[p].stdout) \o <<NL>>
               /\ IsPrefix(written[p], cache)

\* In directory p with no cache file uv printed "v"; v/bin/python was spawned
\* with make.py x y and with PATH v/bin:b, and the cache file is "p v".
C13_Witness ==
    \E p \in Procs :
        /\ HasScanned(p)
        /\ ~scanned[p].exists
        /\ cur_dir[p] = <<"p">>
        /\ uv[p].stdout = <<"v", NL>>
        /\ pc[p] = "wait"
        /\ args[p] = << <<"x">>, <<"y">> >>
        /\ command[p].program = <<"v", "/", "bin", "/", "python">>
        /\ command[p].args = << MakePy, <<"x">>, <<"y">> >>
        /\ command[p].env_path = <<"v", "/", "bin", ":", "b">>
        /\ lines(cache) = << <<"p", SP, "v">> >>

\* The scan of the cache file by p failed to extract the second field of a
\* line it took for its directory.
ScanFailed(p) ==
    /\ scanned[p].done
    /\ scanned[p].exists
    /\ scan_lines(lines(scanned[p].content), cur_dir[p], <<>>).panic

\* Every path get_venv_path returned is non-empty, and what a process has
\* appended begins with its directory, a space and a non-empty path.
NonEmptyPaths ==
    \A p \in Procs :
        /\ Returned(p) => venv_path[p] # <<>>
        /\ written[p] # <<>> =>
             /\ venv_path[p] # <<>>
             /\ IsPrefix(cur_dir[p] \o <<SP>> \o venv_path[p], written[p])

Records ==
    { RecordLine(d, Trim(s)) : d \in dirs, s \in { t \in ToolStdouts : Trim(t) # <<>> } }

\* The file has a line that is not one record.
HasMangledLine(content) ==
    \E i \in 1..Len(lines(content)) : lines(content)[i] \notin Records

\* C15: nothing orders the writes of two processes on the miss path: when
\* one process has written its record but not yet the newline and another
\* is about to write its record, that write can happen at once, and it
\* leaves in the cache file a line that is not one invocation's record.
C15_UncoordinatedAppends ==
    \A p, q \in Procs :
        (p # q /\ pc[p] = "write_line" /\ pc[q] = "write_newline") =>
            ENABLED (WriteLine(p) /\ written'[p] # <<>> /\ HasMangledLine(cache'))

\* Both processes missed, both appended and went on to the launch, and the
\* cache file they leave has the line "p vp2 w".
C15_Witness ==
    /\ \A p \in Procs :
         /\ HasScanned(p) /\ ~Hit(p)
         /\ uv[p].run
         /\ written[p] # <<>>
         /\ pc[p] = "launch"
    /\ lines(cache) = << <<"p", SP, "v", "p", "2", SP, "w">>, <<>> >>

\* What precedes the first space of a line (the whole line if it has none).
RECURSIVE DirOf(_)
DirOf(line) ==
    IF line = <<>> \/ Head(line) = SP THEN <<>> ELSE <<Head(line)>> \o DirOf(Tail(line))

\* The line is a record for a whitespace-free directory other than d: it is
\* "<d2> <path>" with d2 not empty, free of whitespace and different from d.
RecordOfOther(line, d) ==
    /\ Len(DirOf(line)) < Len(line)
    /\ DirOf(line) # <<>>
    /\ DirOf(line) # d

\* The lines without the records for whitespace-free directories other than d.
RECURSIVE Without(_, _)
Without(ls, d) ==
    IF ls = <<>> THEN <<>>
    ELSE IF RecordOfOther(Head(ls), d) THEN Without(Tail(ls), d)
         ELSE <<Head(ls)>> \o Without(Tail(ls), d)

\* What the scan and the validation give for directory d on the lines ls.
Resolve(ls, d) ==
    LET r == scan_lines(ls, d, <<>>)
    IN  IF r.panic THEN r
        ELSE [panic |-> FALSE, venv_path |-> validate(r.venv_path, files)]

\* C16: when the current directory D has no whitespace, no line that is a
\* record for another whitespace-free directory is taken for D, also when D
\* is a prefix of that directory; and the invocation does what the file
\* without those records makes it do: it returns the path resolved from that
\* file and runs no tool, or, if that file resolves to nothing, it runs uv.
C16_DirectoryIsolation ==
    \A p \in Procs :
        (HasScanned(p) /\ ~HasWhitespace(cur_dir[p])) =>
            LET ls == ScannedLines(p)
                d == cur_dir[p]
                alone == Resolve(Without(ls, d), d)
            IN  /\ \A i \in 1..Len(ls) :
                     RecordOfOther(ls[i], d) => ~line_matches(ls[i], d)
                /\ Resolve(ls, d) = alone
                /\ ~alone.panic
                /\ alone.venv_path # <<>> =>
                     /\ venv_path[p] = alone.venv_path
                     /\ ~uv[p].run
                     /\ ~poetry[p].run
                /\ alone.venv_path = <<>> => (pc[p] = "uv" \/ uv[p].run)

\* The file read in directory p is "p v" then "p2 w", both paths with
\* bin/python: v is returned, not the later w of p2.
C16_Witness ==
    \E p \in Procs :
        /\ HasScanned(p)
        /\ cur_dir[p] = <<"p">>
        /\ ScannedLines(p) = << <<"p", SP, "v">>, <<"p", "2", SP, "w">> >>
        /\ HasPython(<<"v">>) /\ HasPython(<<"w">>)
        /\ Returned(p)
        /\ venv_path[p] = <<"v">>
        /\ ~uv[p].run

\* The file p read is the file as the last append left it, and that append
\* was the record of an invocation in the directory of p that missed and got
\* the path from a tool; directory and path have no whitespace, and the path
\* has bin/python.
ResolvedJustBefore(p) ==
    /\ HasScanned(p)
    /\ last_append.done
    /\ scanned[p].exists
    /\ scanned[p].content = last_append.file
    /\ cur_dir[p] = last_append.dir
    /\ ~HasWhitespace(last_append.dir)
    /\ ~HasWhitespace(last_append.path)
    /\ HasPython(last_append.path)

\* C17: an invocation that follows, with no writer in between, an invocation
\* for the same directory that missed, got P from a tool and appended its
\* record (directory and P without whitespace, P/bin/python existing)
\* returns P, runs no tool and leaves the cache file as it is; and an
\* invocation in a whitespace-free directory appends only if the file it
\* read has no record for that directory, or if the path of the last such
\* record has whitespace in it or lacks bin/python, so that while the
\* environments stay the file gets at most one record for the directory.
C17_ResolveAgainStable ==
    \A p \in Procs :
        /\ ResolvedJustBefore(p) =>
             /\ Returned(p)
             /\ venv_path[p] = last_append.path
             /\ ~uv[p].run
             /\ ~poetry[p].run
             /\ written[p] = <<>>
             /\ cache = scanned[p].content
        /\ ( /\ HasScanned(p)
             /\ written[p] # <<>>
             /\ ~HasWhitespace(cur_dir[p])
             /\ RecordsFor(ScannedLines(p), cur_dir[p]) # {}
             /\ ~HasWhitespace(LaterPath(p)) ) => ~HasPython(LaterPath(p))

\* An invocation in p2 got w from a tool and appended "p2 w"; the next one,
\* in p2 again, returned w without a tool, and the file is still that line.
C17_Witness ==
    \E p \in Procs :
        /\ ResolvedJustBefore(p)
        /\ cur_dir[p] = <<"p", "2">>
        /\ pc[p] = "wait"
        /\ venv_path[p] = <<"w">>
        /\ ~uv[p].run
        /\ cache = <<"p", "2", SP, "w", NL>>

\* A record for the directory of p that comes before the last one names a
\* path with bin/python.
EarlierValid(p) ==
    LET ls == ScannedLines(p)
        rs == RecordsFor(ls, cur_dir[p])
    IN  \E i \in rs :
            /\ \E j \in rs : i < j
            /\ HasPython(RecordPath(ls[i], cur_dir[p]))

\* The invocation went to the fallback chain.
ChainRuns(p) == pc[p] = "uv" \/ uv[p].run

\* A path returned without a tool is the path of the last record.
LastRecordReturned(p) ==
    ( /\ HasScanned(p)
      /\ RecordsFor(ScannedLines(p), cur_dir[p]) # {}
      /\ Returned(p)
      /\ ~uv[p].run ) => venv_path[p] = LaterPath(p)

\* C18 as stated: if the last record for the current directory names a path
\* without bin/python, the fallback chain runs, also when an earlier record
\* for the directory names a path with bin/python; and a path returned from
\* the cache is that of the last record, never that of an earlier one.
C18_AnyStrings ==
    \A p \in Procs :
        /\ StaleRecord(p) => ChainRuns(p)
        /\ LastRecordReturned(p)

\* C18 (amended): the same for a current directory and a last record's path
\* that contain no whitespace.
C18_LastRecordOnly ==
    \A p \in Procs :
        ( /\ HasScanned(p)
          /\ RecordsFor(ScannedLines(p), cur_dir[p]) # {}
          /\ ~HasWhitespace(cur_dir[p])
          /\ ~HasWhitespace(LaterPath(p)) ) =>
            /\ StaleRecord(p) => ChainRuns(p)
            /\ LastRecordReturned(p)

\* The file has "p w" then "p v"; w has bin/python and v has not. The tools
\* were run, found nothing, and the invocation failed instead of using w.
C18_Witness ==
    \E p \in Procs :
        /\ scanned[p].done
        /\ cur_dir[p] = <<"p">>
        /\ ScannedLines(p) = << <<"p", SP, "w">>, <<"p", SP, "v">> >>
        /\ HasPython(<<"w">>)
        /\ ~HasPython(<<"v">>)
        /\ uv[p].run /\ poetry[p].run
        /\ pc[p] = "done"
        /\ status[p] = ExitFailure
====
